---- MODULE Spec2Model ----
(***************************************************************************)
(* A model of the calendar-command parsing core of RAG_Assistant:          *)
(*   src/ICS_Calander_Event_Generation.py  parse_date, parse_time_12_24,   *)
(*                                         smart_parse, build_ics,         *)
(*                                         event_cmd                       *)
(*   src/main.py                           CalendarBot.parse_datetime,     *)
(*                                         extract_title,                  *)
(*                                         find_event_by_keywords,         *)
(*                                         update_event,                   *)
(*                                         edit_event_command              *)
(* Texts are sequences of one-character strings, so that the regular       *)
(* expressions, strptime formats and strftime renderings of the code are   *)
(* computed character by character.                                        *)
(***************************************************************************)
EXTENDS Integers, Sequences, FiniteSets, TLC

VARIABLES
    today,      \* the clock's date: dt.date.today() / datetime.now().date()
    inp,        \* how the input text was put together (the test input's parts)
    text,       \* the input text: a token, a command line or a message
    pc,         \* the position of the driver / handler
    tres,       \* what parse_time_12_24 returned
    dres,       \* what parse_date returned
    data,       \* the dict smart_parse returned
    ics,        \* what build_ics returned (or the error it raised)
    buildCalls, \* how many times build_ics was invoked by the handler
    replies,    \* the reply_text messages the handler sent, in order
    docs,       \* how many reply_document calls the handler made
    nlres,      \* what CalendarBot.parse_datetime returned
    clock,      \* the clock's second: int(datetime.now(timezone.utc).timestamp())
    title,      \* what CalendarBot.extract_title returned
    remote,     \* the calendar's events, as the calendar service holds them
    hs,         \* the /event handlers running side by side, each with its own locals
    fetched     \* the event edit_event_command found: its place in the calendar and the record

vars == <<today, inp, text, pc, tres, dres, data, ics, buildCalls, replies, docs, nlres, clock, title, remote, hs, fetched>>

(***************************************************************************)
(* Bounds of the enumerated inputs.                                        *)
(***************************************************************************)
MaxHourTok == 13      \* hours written in 12-hour tokens: 0..MaxHourTok
MaxMinuteTok == 61    \* minutes written in tokens: 0..MaxMinuteTok
MaxDigitsVal == 2400  \* digits-only tokens are written for 0..MaxDigitsVal
MaxDayTok == 32       \* days written in date tokens: 0..MaxDayTok
MaxMonthTok == 13     \* months written in date tokens: 0..MaxMonthTok
NLDays == 7            \* the free-text messages are read on this many consecutive clock dates
NHandlers == 2      \* /event commands handled side by side
MaxClock == 1       \* the clock's second advances at most this many times
MaxReminderDigits == 6 \* the longest reminder token written has this many digits

(***************************************************************************)
(* Program constants.                                                      *)
(***************************************************************************)
DEFAULT_DURATION_MIN == 60
MAX_REMINDER_MIN == 10080

(***************************************************************************)
(* Python values: None and "some value" as sequences of length 0 and 1.    *)
(***************************************************************************)
None == <<>>
Some(v) == <<v>>
IsNone(o) == o = <<>>
Val(o) == o[1]

(***************************************************************************)
(* Characters.                                                             *)
(***************************************************************************)
DigitChars == <<"0", "1", "2", "3", "4", "5", "6", "7", "8", "9">>
UpperChars == <<"A", "B", "C", "D", "E", "F", "G", "H", "I", "J", "K", "L", "M",
                "N", "O", "P", "Q", "R", "S", "T", "U", "V", "W", "X", "Y", "Z">>
LowerChars == <<"a", "b", "c", "d", "e", "f", "g", "h", "i", "j", "k", "l", "m",
                "n", "o", "p", "q", "r", "s", "t", "u", "v", "w", "x", "y", "z">>

IsDigit(c) == \E i \in 1..10 : DigitChars[i] = c
IsUpper(c) == \E i \in 1..26 : UpperChars[i] = c
IsLower(c) == \E i \in 1..26 : LowerChars[i] = c
IsSpace(c) == c = " "
\* \w of the re module: letters, digits and the underscore
IsWordChar(c) == IsDigit(c) \/ IsUpper(c) \/ IsLower(c) \/ c = "_"

DigitVal(c) == (CHOOSE i \in 1..10 : DigitChars[i] = c) - 1
LowerChar(c) == IF IsUpper(c) THEN LowerChars[CHOOSE i \in 1..26 : UpperChars[i] = c] ELSE c

\* str.lower()
Lower(s) == [i \in 1..Len(s) |-> LowerChar(s[i])]

Take(s, n) == SubSeq(s, 1, n)
Drop(s, n) == SubSeq(s, n + 1, Len(s))

\* int() of a string of decimal digits
RECURSIVE ToInt(_)
ToInt(s) == IF s = <<>> THEN 0 ELSE 10 * ToInt(Take(s, Len(s) - 1)) + DigitVal(s[Len(s)])

\* str(n) of a natural number
RECURSIVE Dec(_)
Dec(n) == IF n < 10 THEN <<DigitChars[n + 1]>> ELSE Dec(n \div 10) \o <<DigitChars[(n % 10) + 1]>>

\* f"{n:02d}" and strftime's two-digit fields
Pad2(n) == IF n < 10 THEN <<"0">> \o Dec(n) ELSE Dec(n)
\* f"{n:04d}", the year of date.isoformat()
Pad4(n) == IF n < 10 THEN <<"0", "0", "0">> \o Dec(n)
           ELSE IF n < 100 THEN <<"0", "0">> \o Dec(n)
           ELSE IF n < 1000 THEN <<"0">> \o Dec(n)
           ELSE Dec(n)

\* the number of characters from position p on that satisfy a class
RECURSIVE DigitRun(_, _)
DigitRun(s, p) == IF p <= Len(s) /\ IsDigit(s[p]) THEN 1 + DigitRun(s, p + 1) ELSE 0
RECURSIVE SpaceRun(_, _)
SpaceRun(s, p) == IF p <= Len(s) /\ IsSpace(s[p]) THEN 1 + SpaceRun(s, p + 1) ELSE 0
RECURSIVE TrailingSpaces(_)
TrailingSpaces(s) == IF s # <<>> /\ IsSpace(s[Len(s)]) THEN 1 + TrailingSpaces(Take(s, Len(s) - 1)) ELSE 0

\* str.strip()
Strip(s) == LET a == SpaceRun(s, 1)
            IN  IF a = Len(s) THEN <<>> ELSE SubSeq(s, a + 1, Len(s) - TrailingSpaces(s))

\* s.startswith(w) at position p
MatchAt(s, p, w) == p + Len(w) - 1 <= Len(s) /\ SubSeq(s, p, p + Len(w) - 1) = w
\* w in s
Contains(s, w) == \E p \in 1..(Len(s) + 1) : MatchAt(s, p, w)
\* s.find(w), 1-based; 0 when absent
Find(s, w) == IF Contains(s, w) THEN CHOOSE p \in 1..(Len(s) + 1) : MatchAt(s, p, w) /\ \A q \in 1..(p - 1) : ~MatchAt(s, q, w) ELSE 0

(***************************************************************************)
(* Calendar arithmetic of the datetime module.                             *)
(***************************************************************************)
IsLeap(y) == (y % 4 = 0) /\ ((y % 100 # 0) \/ (y % 400 = 0))
DaysInMonth(y, m) == IF m = 2 THEN (IF IsLeap(y) THEN 29 ELSE 28)
                     ELSE IF m \in {4, 6, 9, 11} THEN 30 ELSE 31
\* dt.date(y, m, d) raises ValueError unless this holds
ValidDate(y, m, d) == /\ y \in 1..9999
                      /\ m \in 1..12
                      /\ d \in 1..DaysInMonth(y, m)
MkDate(y, m, d) == [year |-> y, month |-> m, day |-> d]
\* date < date
DateLess(a, b) == \/ a.year < b.year
                  \/ a.year = b.year /\ a.month < b.month
                  \/ a.year = b.year /\ a.month = b.month /\ a.day < b.day
\* the day after; the year may pass 9999, which the callers test
NextDay(a) == IF a.day < DaysInMonth(a.year, a.month) THEN MkDate(a.year, a.month, a.day + 1)
              ELSE IF a.month < 12 THEN MkDate(a.year, a.month + 1, 1)
              ELSE MkDate(a.year + 1, 1, 1)
RECURSIVE AddDays(_, _)
AddDays(a, n) == IF n = 0 THEN a ELSE AddDays(NextDay(a), n - 1)
\* date.toordinal()
RECURSIVE DaysBeforeMonth(_, _)
DaysBeforeMonth(y, m) == IF m = 1 THEN 0 ELSE DaysBeforeMonth(y, m - 1) + DaysInMonth(y, m - 1)
ToOrdinal(a) == LET y == a.year - 1
                IN  y * 365 + (y \div 4) - (y \div 100) + (y \div 400) + DaysBeforeMonth(a.year, a.month) + a.day
\* date.weekday(): Monday is 0
Weekday(a) == (ToOrdinal(a) + 6) % 7
\* date.isoformat()
IsoFormat(a) == Pad4(a.year) \o <<"-">> \o Pad2(a.month) \o <<"-">> \o Pad2(a.day)

MkTime(h, m) == [hour |-> h, minute |-> m]
\* time.strftime("%H:%M")
FormatHM(t) == Pad2(t.hour) \o <<":">> \o Pad2(t.minute)

(***************************************************************************)
(* datetime.strptime.  A format is a sequence of directives ("%H") and     *)
(* literal characters.  _strptime turns it into a regular expression       *)
(* whose directives are ordered alternatives, matches it at the start of   *)
(* the text (re.match: the first match in backtracking order), and raises  *)
(* ValueError when the match does not end at the end of the text.          *)
(***************************************************************************)
IsDirective(item) == item \in {"%Y", "%m", "%d", "%H", "%M"}
Cond(b, len) == IF b THEN <<len>> ELSE <<>>
CharAt(s, p) == IF p \in 1..Len(s) THEN s[p] ELSE ""
\* the lengths a directive can take at position p, in the order of its alternatives
Alts(item, s, p) ==
    LET c1 == CharAt(s, p)
        c2 == CharAt(s, p + 1)
    IN  CASE item = "%H" ->    \* 2[0-3]|[0-1]\d|\d
                 Cond(c1 = "2" /\ c2 \in {"0", "1", "2", "3"}, 2)
                 \o Cond(c1 \in {"0", "1"} /\ IsDigit(c2), 2)
                 \o Cond(IsDigit(c1), 1)
          [] item = "%M" ->    \* [0-5]\d|\d
                 Cond(c1 \in {"0", "1", "2", "3", "4", "5"} /\ IsDigit(c2), 2)
                 \o Cond(IsDigit(c1), 1)
          [] item = "%d" ->    \* 3[0-1]|[1-2]\d|0[1-9]|[1-9]| [1-9]
                 Cond(c1 = "3" /\ c2 \in {"0", "1"}, 2)
                 \o Cond(c1 \in {"1", "2"} /\ IsDigit(c2), 2)
                 \o Cond(c1 = "0" /\ IsDigit(c2) /\ c2 # "0", 2)
                 \o Cond(IsDigit(c1) /\ c1 # "0", 1)
                 \o Cond(c1 = " " /\ IsDigit(c2) /\ c2 # "0", 2)
          [] item = "%m" ->    \* 1[0-2]|0[1-9]|[1-9]
                 Cond(c1 = "1" /\ c2 \in {"0", "1", "2"}, 2)
                 \o Cond(c1 = "0" /\ IsDigit(c2) /\ c2 # "0", 2)
                 \o Cond(IsDigit(c1) /\ c1 # "0", 1)
          [] OTHER ->          \* %Y: \d\d\d\d
                 Cond(DigitRun(s, p) >= 4, 4)

\* the fields strptime starts from: 1900-01-01 00:00, no year seen
StrpDefaults == [Y |-> 1900, m |-> 1, d |-> 1, H |-> 0, M |-> 0, hasY |-> FALSE, end |-> 0]
FieldOf(item) == CASE item = "%Y" -> "Y" [] item = "%m" -> "m" [] item = "%d" -> "d"
                   [] item = "%H" -> "H" [] OTHER -> "M"

RECURSIVE StrpFrom(_, _, _, _)
RECURSIVE StrpTry(_, _, _, _, _, _)
\* the first match of fmt[i..] at s[p..]: None, or Some(fields)
StrpFrom(fmt, i, s, p) ==
    IF i > Len(fmt) THEN Some([StrpDefaults EXCEPT !.end = p])
    ELSE IF IsDirective(fmt[i]) THEN StrpTry(fmt, i, s, p, Alts(fmt[i], s, p), 1)
    ELSE IF CharAt(s, p) = fmt[i] THEN StrpFrom(fmt, i + 1, s, p + 1)
    ELSE None
\* the alternatives of directive fmt[i], from the k-th on
StrpTry(fmt, i, s, p, alts, k) ==
    IF k > Len(alts) THEN None
    ELSE LET r == StrpFrom(fmt, i + 1, s, p + alts[k])
         IN  IF IsNone(r) THEN StrpTry(fmt, i, s, p, alts, k + 1)
             ELSE LET v == ToInt(Strip(SubSeq(s, p, p + alts[k] - 1)))
                      f == [Val(r) EXCEPT ![FieldOf(fmt[i])] = v]
                  IN  Some(IF fmt[i] = "%Y" THEN [f EXCEPT !.hasY = TRUE] ELSE f)

\* datetime.strptime(s, fmt): None stands for ValueError
strptime(s, fmt) ==
    LET r == StrpFrom(fmt, 1, s, 1)
    IN  IF IsNone(r) THEN None
        ELSE IF Val(r).end # Len(s) + 1 THEN None      \* unconverted data remains
        ELSE IF ~ValidDate(Val(r).Y, Val(r).m, Val(r).d) THEN None
        ELSE r

(***************************************************************************)
(* parse_time_12_24                                                        *)
(***************************************************************************)
\* re.fullmatch(r"(\d{1,2})(?::(\d{2}))?\s*(am|pm)", s): None, or the groups
Match12h(s) ==
    LET k == DigitRun(s, 1)
        hasMin == CharAt(s, k + 1) = ":" /\ IsDigit(CharAt(s, k + 2)) /\ IsDigit(CharAt(s, k + 3))
        p == IF hasMin THEN k + 4 ELSE k + 1
        q == p + SpaceRun(s, p)
        ap == Drop(s, q - 1)
    IN  IF k \in {1, 2} /\ ap \in {<<"a", "m">>, <<"p", "m">>}
        THEN Some([g1 |-> Take(s, k),
                   g2 |-> IF hasMin THEN Some(SubSeq(s, k + 2, k + 3)) ELSE None,
                   g3 |-> ap])
        ELSE None

\* re.fullmatch(r"(\d{1,2})(am|pm)", s)
MatchCompact(s) ==
    LET k == DigitRun(s, 1)
        ap == Drop(s, k)
    IN  IF k \in {1, 2} /\ ap \in {<<"a", "m">>, <<"p", "m">>}
        THEN Some([g1 |-> Take(s, k), g2 |-> ap])
        ELSE None

To24_pm12_is_24(h, ap) == IF ap = <<"a", "m">> THEN (IF h = 12 THEN 0 ELSE h) ELSE h + 12
\* the meridiem conversion: 12 am is 0, 12 pm is 12, other pm hours + 12
To24(h, ap) == IF ap = <<"a", "m">> THEN (IF h = 12 THEN 0 ELSE h)
               ELSE (IF h = 12 THEN 12 ELSE h + 12)

TimeFormats == << <<"%H", ":", "%M">>, <<"%H", "%M">>, <<"%H">> >>

\* the 24-hour fallbacks: the first format strptime accepts
RECURSIVE Fallback24(_, _)
Fallback24(s, i) ==
    IF i > Len(TimeFormats) THEN None
    ELSE LET r == strptime(s, TimeFormats[i])
         IN  IF IsNone(r) THEN Fallback24(s, i + 1)
             ELSE IF TimeFormats[i] = <<"%H">> THEN Some(MkTime(Val(r).H, 0))
             ELSE Some(MkTime(Val(r).H, Val(r).M))

parse_time_12_24(txt) ==
    LET s == Lower(Strip(txt))
        m == Match12h(s)
        m2 == MatchCompact(s)
    IN  IF ~IsNone(m)
        THEN LET h == ToInt(Val(m).g1)
                 mnt == IF IsNone(Val(m).g2) THEN 0 ELSE ToInt(Val(Val(m).g2))
             IN  IF ~(1 <= h /\ h <= 12 /\ 0 <= mnt /\ mnt <= 59) THEN None
                 ELSE Some(MkTime(To24(h, Val(m).g3), mnt))
        ELSE IF ~IsNone(m2)
        THEN LET h == ToInt(Val(m2).g1)
             IN  IF ~(1 <= h /\ h <= 12) THEN None
                 ELSE Some(MkTime(To24(h, Val(m2).g2), 0))
        ELSE Fallback24(Strip(txt), 1)

(***************************************************************************)
(* parse_date                                                              *)
(***************************************************************************)
DateFormats == << <<"%Y", "-", "%m", "-", "%d">>,
                  <<"%d", "-", "%m", "-", "%Y">>,
                  <<"%d", "-", "%m">>,
                  <<"%d", "/", "%m", "/", "%Y">>,
                  <<"%d", "/", "%m">> >>
YearlessFormats == { <<"%d", "-", "%m">>, <<"%d", "/", "%m">> }

\* the year-less policy: the date in today's year, or a year later when that has passed
RollForward(cand, tdy) == IF DateLess(cand, tdy) THEN MkDate(tdy.year + 1, cand.month, cand.day)
                          ELSE cand

\* the formats from the i-th on; a ValueError anywhere in the body goes on to the next
RECURSIVE ParseDateFrom(_, _, _)
ParseDateFrom(s, tdy, i) ==
    IF i > Len(DateFormats) THEN None
    ELSE LET d == strptime(s, DateFormats[i])
         IN  IF IsNone(d) THEN ParseDateFrom(s, tdy, i + 1)
             ELSE IF DateFormats[i] \in YearlessFormats
             THEN LET cand == RollForward(MkDate(tdy.year, Val(d).m, Val(d).d), tdy)
                  IN  IF ValidDate(tdy.year, Val(d).m, Val(d).d) /\ ValidDate(cand.year, cand.month, cand.day)
                      THEN Some(cand)
                      ELSE ParseDateFrom(s, tdy, i + 1)
             ELSE Some(MkDate(Val(d).Y, Val(d).m, Val(d).d))

parse_date(txt, tdy) == ParseDateFrom(Strip(txt), tdy, 1)

(***************************************************************************)
(* smart_parse.  The dict is a function from its keys; a key the code      *)
(* never set is not in its domain.  location, description and end_time     *)
(* hold None or Some(text).                                                *)
(***************************************************************************)
DEFAULT_TZ == "Asia/Kolkata"
Put(d, k, v) == (k :> v) @@ d
HasKey(d, k) == k \in DOMAIN d
\* dict.get(k): None for a missing key
Get(d, k) == IF HasKey(d, k) THEN d[k] ELSE None

Min(a, b) == IF a < b THEN a ELSE b
Max(a, b) == IF a > b THEN a ELSE b

\* the least position in 1..Len(s) satisfying P, or 0
FirstPos(s, P(_)) == IF \E p \in 1..Len(s) : P(p)
                     THEN CHOOSE p \in 1..Len(s) : P(p) /\ \A q \in 1..(p - 1) : ~P(q)
                     ELSE 0

\* str.replace(old, ""): every non-overlapping occurrence, left to right
RECURSIVE RemoveAll(_, _)
RemoveAll(s, old) ==
    LET p == Find(s, old)
    IN  IF old = <<>> \/ p = 0 THEN s
        ELSE Take(s, p - 1) \o RemoveAll(Drop(s, p - 1 + Len(old)), old)

\* str.split(): the maximal runs of non-whitespace
RECURSIVE Split(_)
Split(s) ==
    LET t == Drop(s, SpaceRun(s, 1))
        n == IF \E p \in 1..Len(t) : IsSpace(t[p])
             THEN (CHOOSE p \in 1..Len(t) : IsSpace(t[p]) /\ \A q \in 1..(p - 1) : ~IsSpace(t[q])) - 1
             ELSE Len(t)
    IN  IF t = <<>> THEN <<>> ELSE <<Take(t, n)>> \o Split(Drop(t, n))

CmdEvent == <<"/", "e", "v", "e", "n", "t">>
Untitled == <<"U", "n", "t", "i", "t", "l", "e", "d">>

\* lines 106-115: the fresh dict and the text without the command token
StartParse(command_text) ==
    LET t == Strip(command_text)
    IN  [data |-> [timezone |-> DEFAULT_TZ, reminder |-> 0, location |-> None, description |-> None],
         text |-> IF MatchAt(t, 1, CmdEvent) THEN Strip(Drop(t, Len(CmdEvent))) ELSE t]

\* re.search(r"\br(\d{1,5})\b", text, re.IGNORECASE) matches at p
ReminderAt(t, p) ==
    LET k == DigitRun(t, p + 1)
    IN  /\ LowerChar(t[p]) = "r"
        /\ (p = 1 \/ ~IsWordChar(t[p - 1]))
        /\ k \in 1..5
        /\ (p + k = Len(t) \/ ~IsWordChar(CharAt(t, p + k + 1)))

\* max(0, min(MAX_REMINDER_MIN, mins))
Clamp(mins) == Max(0, Min(MAX_REMINDER_MIN, mins))

\* lines 117-122
ExtractReminder(st) ==
    LET t == st.text
        p == FirstPos(t, LAMBDA q : ReminderAt(t, q))
        k == DigitRun(t, p + 1)
    IN  IF p = 0 THEN st
        ELSE [data |-> [st.data EXCEPT !.reminder = Clamp(ToInt(SubSeq(t, p + 1, p + k)))],
              text |-> Strip(Take(t, p - 1) \o <<" ">> \o Drop(t, p + k))]

\* [^!@r]
IsLocChar(c) == c \notin {"!", "@", "r"}
RECURSIVE LocRun(_, _)
LocRun(s, p) == IF p <= Len(s) /\ IsLocChar(s[p]) THEN 1 + LocRun(s, p + 1) ELSE 0

\* lines 124-128: re.search(r"#([^!@r]+)", text)
ExtractLocation(st) ==
    LET t == st.text
        p == FirstPos(t, LAMBDA q : t[q] = "#" /\ LocRun(t, q + 1) >= 1)
        n == LocRun(t, p + 1)
    IN  IF p = 0 THEN st
        ELSE [data |-> [st.data EXCEPT !.location = Some(Strip(SubSeq(t, p + 1, p + n)))],
              text |-> Strip(RemoveAll(t, SubSeq(t, p, p + n)))]

\* lines 130-134: re.search(r"!(.+)$", text)
ExtractDescription(st) ==
    LET t == st.text
        p == FirstPos(t, LAMBDA q : t[q] = "!" /\ q < Len(t))
    IN  IF p = 0 THEN st
        ELSE [data |-> [st.data EXCEPT !.description = Some(Strip(Drop(t, p)))],
              text |-> Strip(Take(t, p - 1))]

\* lines 113-134: the text the schedule is read from, and the dict so far
CarveOut(command_text) == ExtractDescription(ExtractLocation(ExtractReminder(StartParse(command_text))))

\* lines 159-177: the time token, a range or a single time
ParseTimes(dct, date_obj, time_str) ==
    LET dash == Find(time_str, <<"-">>)
        t_start == IF dash > 0 THEN parse_time_12_24(Strip(Take(time_str, dash - 1)))
                   ELSE parse_time_12_24(time_str)
        t_end == parse_time_12_24(Strip(Drop(time_str, dash)))
        dated == Put(dct, "date", IsoFormat(Val(date_obj)))
    IN  IF dash > 0
        THEN IF IsNone(t_start) \/ IsNone(t_end)
             THEN Put(dct, "needs_more", "time_range")
             ELSE Put(Put(dated, "start_time", FormatHM(Val(t_start))), "end_time", Some(FormatHM(Val(t_end))))
        ELSE IF IsNone(t_start)
             THEN Put(dct, "needs_more", "time")
             ELSE Put(Put(dated, "start_time", FormatHM(Val(t_start))), "end_time", None)

ParseSchedule_timeFirst(st, tdy) ==
    LET t == st.text
        at == Find(t, <<"@">>)
        title_part == Strip(Take(t, at - 1))
        parts == Split(Strip(Drop(t, at)))
        titled == Put(st.data, "title", IF title_part # <<>> THEN title_part ELSE Untitled)
    IN  IF at = 0
        THEN Put(Put(st.data, "title", IF Strip(t) # <<>> THEN Strip(t) ELSE Untitled), "needs_more", "schedule")
        ELSE IF Len(parts) < 2 THEN Put(titled, "needs_more", "date_time")
        ELSE IF Find(parts[2], <<"-">>) = 0 /\ IsNone(parse_time_12_24(parts[2])) THEN Put(titled, "needs_more", "time")
        ELSE IF IsNone(parse_date(parts[1], tdy)) THEN Put(titled, "needs_more", "date")
        ELSE ParseTimes(titled, parse_date(parts[1], tdy), parts[2])
\* lines 136-179: title and schedule around the first '@'
ParseSchedule(st, tdy) ==
    LET t == st.text
        at == Find(t, <<"@">>)
        title_part == Strip(Take(t, at - 1))
        parts == Split(Strip(Drop(t, at)))
        titled == Put(st.data, "title", IF title_part # <<>> THEN title_part ELSE Untitled)
    IN  IF at = 0
        THEN Put(Put(st.data, "title", IF Strip(t) # <<>> THEN Strip(t) ELSE Untitled), "needs_more", "schedule")
        ELSE IF Len(parts) < 2 THEN Put(titled, "needs_more", "date_time")
        ELSE IF IsNone(parse_date(parts[1], tdy)) THEN Put(titled, "needs_more", "date")
        ELSE ParseTimes(titled, parse_date(parts[1], tdy), parts[2])

smart_parse(command_text, tdy) == ParseSchedule(CarveOut(command_text), tdy)

(***************************************************************************)
(* build_ics.  A datetime is a date with an hour and a minute; the zone is *)
(* the same on both sides of every comparison.                             *)
(***************************************************************************)
MkDateTime(d, h, m) == [date |-> d, hour |-> h, minute |-> m]
\* datetime + timedelta(minutes=n)
AddMinutes(a, n) == LET total == a.hour * 60 + a.minute + n
                    IN  MkDateTime(AddDays(a.date, total \div 1440), (total % 1440) \div 60, total % 60)
\* the result of an addition is past datetime.max: OverflowError
Overflows(a) == a.date.year > 9999
\* datetime <= datetime
DateTimeLeq(a, b) == \/ DateLess(a.date, b.date)
                     \/ a.date = b.date /\ a.hour * 60 + a.minute <= b.hour * 60 + b.minute
\* dt.date.fromisoformat of the text date.isoformat() wrote
FromIso(s) == MkDate(ToInt(SubSeq(s, 1, 4)), ToInt(SubSeq(s, 6, 7)), ToInt(SubSeq(s, 9, 10)))
\* map(int, s.split(":")) of an "HH:MM" text
HourOf(s) == ToInt(Take(s, Find(s, <<":">>) - 1))
MinuteOf(s) == ToInt(Drop(s, Find(s, <<":">>)))

ReminderPrefix == <<"R", "e", "m", "i", "n", "d", "e", "r", ":", " ">>
UidSuffix == <<"@", "f", "u", "n", "-", "i", "c", "s">>

EffectiveEnd_keepParsed(dtstart, dtend) == dtend
\* lines 194-195: an end that is not after the start gives way to the default duration
EffectiveEnd(dtstart, dtend) == IF DateTimeLeq(dtend, dtstart) THEN AddMinutes(dtstart, DEFAULT_DURATION_MIN)
                                ELSE dtend

\* an alarm whatever the reminder
Alarms_always(dct) ==
    LET reminder == IF HasKey(dct, "reminder") THEN dct.reminder ELSE 0
    IN  << [action |-> "DISPLAY", description |-> ReminderPrefix \o dct.title, trigger |-> 0 - reminder] >>
\* lines 215-221: the alarm sub-components of the event
Alarms(dct) ==
    LET reminder == IF HasKey(dct, "reminder") THEN dct.reminder ELSE 0
    IN  IF reminder > 0
        THEN << [action |-> "DISPLAY", description |-> ReminderPrefix \o dct.title, trigger |-> 0 - reminder] >>
        ELSE <<>>

\* build_ics(data) at clock second clk: the calendar, or the error raised
build_ics(dct, clk) ==
    LET date == FromIso(dct.date)
        dtstart == MkDateTime(date, HourOf(dct.start_time), MinuteOf(dct.start_time))
        plain == AddMinutes(dtstart, DEFAULT_DURATION_MIN)
        hasEnd == ~IsNone(Get(dct, "end_time")) /\ Val(Get(dct, "end_time")) # <<>>
        dtend0 == IF hasEnd
                  THEN MkDateTime(date, HourOf(Val(dct.end_time)), MinuteOf(Val(dct.end_time)))
                  ELSE plain
        dtend == EffectiveEnd(dtstart, dtend0)
        hasLoc == ~IsNone(Get(dct, "location")) /\ Val(Get(dct, "location")) # <<>>
        hasDesc == ~IsNone(Get(dct, "description")) /\ Val(Get(dct, "description")) # <<>>
        event == [uid |-> Dec(clk) \o UidSuffix,
                  dtstamp |-> clk,
                  summary |-> dct.title,
                  dtstart |-> dtstart,
                  dtend |-> dtend,
                  tzid |-> IF HasKey(dct, "timezone") THEN dct.timezone ELSE DEFAULT_TZ,
                  location |-> IF hasLoc THEN dct.location ELSE None,
                  description |-> IF hasDesc THEN dct.description ELSE None,
                  alarms |-> Alarms(dct)]
    IN  IF (~hasEnd /\ Overflows(plain)) \/ Overflows(dtend)
        THEN [ok |-> FALSE, error |-> "OverflowError", cal |-> <<>>]
        ELSE [ok |-> TRUE, error |-> "",
              cal |-> << [prodid |-> "-//Fun ICS Bot//Telegram//EN", version |-> "2.0",
                          calscale |-> "GREGORIAN", method |-> "PUBLISH", events |-> <<event>>] >>]

(***************************************************************************)
(* event_cmd: the handler of one /event command.                           *)
(***************************************************************************)
\* lines 257-280: the corrective prompt of a tag
PromptFor(need) ==
    CASE need = "schedule" -> "Add schedule after '@'."
      [] need = "date_time" -> "Add date and time after '@'."
      [] need = "date" -> "Could not parse the date."
      [] need = "time" -> "Could not parse the time."
      [] need = "time_range" -> "Could not parse time range."
      [] OTHER -> "Please provide title, date, and time."

MonthAbbr == <<"Jan", "Feb", "Mar", "Apr", "May", "Jun", "Jul", "Aug", "Sep", "Oct", "Nov", "Dec">>
Plus60m == <<"+", "6", "0", "m">>
DotIcs == <<".", "i", "c", "s">>
\* str.replace(" ", "_")
Underscored(s) == [i \in 1..Len(s) |-> IF s[i] = " " THEN "_" ELSE s[i]]

\* lines 290-305: the echo of what was parsed
EchoOf(dct) ==
    LET d == FromIso(dct.date)
    IN  [title |-> dct.title,
         date_disp |-> <<Pad2(d.day), MonthAbbr[d.month], Pad4(d.year)>>,
         start_disp |-> dct.start_time,
         end_disp |-> IF IsNone(dct.end_time) \/ Val(dct.end_time) = <<>> THEN Plus60m ELSE Val(dct.end_time),
         tz_disp |-> IF HasKey(dct, "timezone") THEN dct.timezone ELSE DEFAULT_TZ,
         loc_disp |-> IF IsNone(Get(dct, "location")) \/ Val(Get(dct, "location")) = <<>> THEN <<"-">> ELSE Val(dct.location),
         rem_disp |-> dct.reminder]

NoEcho == <<>>
Reply(kind, body, echo) == [kind |-> kind, body |-> body, echo |-> echo]

(***************************************************************************)
(* CalendarBot.parse_datetime and extract_title of main.py                 *)
(***************************************************************************)
\* the ways (\d{1,2}):?(\d{2})? can be taken, in backtracking order:
\* digits of the hour, a colon or none, digits of the minute or none
TimeWays == << [n1 |-> 2, c |-> 1, n2 |-> 2], [n1 |-> 2, c |-> 1, n2 |-> 0],
               [n1 |-> 2, c |-> 0, n2 |-> 2], [n1 |-> 2, c |-> 0, n2 |-> 0],
               [n1 |-> 1, c |-> 1, n2 |-> 2], [n1 |-> 1, c |-> 1, n2 |-> 0],
               [n1 |-> 1, c |-> 0, n2 |-> 2], [n1 |-> 1, c |-> 0, n2 |-> 0] >>
\* where the meridiem starts when the expression is taken way w at p
MeridiemPos(s, p, w) == LET q == p + w.n1 + w.c + w.n2 IN q + SpaceRun(s, q)
\* r'(\d{1,2}):?(\d{2})?\s*(am|pm)' matches at p taken way w
TimeWayFits(s, p, w) ==
    /\ DigitRun(s, p) >= w.n1
    /\ w.c = 1 => CharAt(s, p + w.n1) = ":"
    /\ w.n2 = 2 => DigitRun(s, p + w.n1 + w.c) >= 2
    /\ \/ MatchAt(s, MeridiemPos(s, p, w), <<"a", "m">>)
       \/ MatchAt(s, MeridiemPos(s, p, w), <<"p", "m">>)
TimeFitsAt(s, p) == \E k \in 1..Len(TimeWays) : TimeWayFits(s, p, TimeWays[k])

\* lines 73-86: the time of the first time expression of the text, or None
ExtractTime(s) ==
    LET p == FirstPos(s, LAMBDA q : TimeFitsAt(s, q))
        k == CHOOSE j \in 1..Len(TimeWays) :
                 TimeWayFits(s, p, TimeWays[j]) /\ \A i \in 1..(j - 1) : ~TimeWayFits(s, p, TimeWays[i])
        w == TimeWays[k]
        hour == ToInt(SubSeq(s, p, p + w.n1 - 1))
        minute == IF w.n2 = 2 THEN ToInt(SubSeq(s, p + w.n1 + w.c, p + w.n1 + w.c + 1)) ELSE 0
        pm == MatchAt(s, MeridiemPos(s, p, w), <<"p", "m">>)
        hour24 == IF pm /\ hour # 12 THEN hour + 12
                  ELSE IF ~pm /\ hour = 12 THEN 0
                  ELSE hour
    IN  IF p = 0 THEN None ELSE Some(Pad2(hour24) \o <<":">> \o Pad2(minute))

WeekdayNames == << <<"m", "o", "n", "d", "a", "y">>,
                   <<"t", "u", "e", "s", "d", "a", "y">>,
                   <<"w", "e", "d", "n", "e", "s", "d", "a", "y">>,
                   <<"t", "h", "u", "r", "s", "d", "a", "y">>,
                   <<"f", "r", "i", "d", "a", "y">>,
                   <<"s", "a", "t", "u", "r", "d", "a", "y">>,
                   <<"s", "u", "n", "d", "a", "y">> >>
WordToday == <<"t", "o", "d", "a", "y">>
WordTomorrow == <<"t", "o", "m", "o", "r", "r", "o", "w">>
WordNext == <<"n", "e", "x", "t">>

DaysAhead_sameDayIsToday(target, current, hasNext) ==
    LET base == IF target - current < 0 THEN target - current + 7 ELSE target - current
    IN  IF hasNext /\ base < 7 THEN base + 7 ELSE base
\* lines 106-112: the days from the clock date to the named weekday
DaysAhead(target, current, hasNext) ==
    LET base == IF target - current <= 0 THEN target - current + 7 ELSE target - current
    IN  IF hasNext /\ base < 7 THEN base + 7 ELSE base

\* r'\b(\d{1,2})(st|nd|rd|th)?\b' matches at p
DayFitsAt(s, p) ==
    LET k == DigitRun(s, p)
        q == p + k
        suffixed == /\ \E x \in { <<"s", "t">>, <<"n", "d">>, <<"r", "d">>, <<"t", "h">> } : MatchAt(s, q, x)
                    /\ ~IsWordChar(CharAt(s, q + 2))
    IN  /\ k \in {1, 2}
        /\ p = 1 \/ ~IsWordChar(s[p - 1])
        /\ suffixed \/ ~IsWordChar(CharAt(s, q))

\* lines 128-129: the month after the clock's
NextMonth(now) == IF now.month < 12 THEN now.month + 1 ELSE 1
NextMonthYear_sameYear(now) == now.year
NextMonthYear(now) == IF now.month < 12 THEN now.year ELSE now.year + 1

\* the rule without the second try of the except clause
DayOfMonthRule_noSecondTry(s, now) ==
    LET p == FirstPos(s, LAMBDA q : DayFitsAt(s, q))
        day == ToInt(SubSeq(s, p, p + DigitRun(s, p) - 1))
        thisMonth == MkDate(now.year, now.month, day)
        nextMonth == MkDate(NextMonthYear(now), NextMonth(now), day)
        nextOrNone == IF ValidDate(nextMonth.year, nextMonth.month, nextMonth.day) THEN Some(nextMonth) ELSE None
    IN  IF p = 0 THEN None
        ELSE IF ~(1 <= day /\ day <= 31) THEN None
        ELSE IF ValidDate(now.year, now.month, day)
        THEN (IF DateLess(thisMonth, now) THEN nextOrNone ELSE Some(thisMonth))
        ELSE None
\* lines 119-138: the day-of-month rule; None when no date comes of it
DayOfMonthRule(s, now) ==
    LET p == FirstPos(s, LAMBDA q : DayFitsAt(s, q))
        day == ToInt(SubSeq(s, p, p + DigitRun(s, p) - 1))
        thisMonth == MkDate(now.year, now.month, day)
        nextMonth == MkDate(NextMonthYear(now), NextMonth(now), day)
        nextOrNone == IF ValidDate(nextMonth.year, nextMonth.month, nextMonth.day) THEN Some(nextMonth) ELSE None
    IN  IF p = 0 THEN None
        ELSE IF ~(1 <= day /\ day <= 31) THEN None
        ELSE IF ValidDate(now.year, now.month, day)
        THEN (IF DateLess(thisMonth, now) THEN nextOrNone ELSE Some(thisMonth))
        ELSE nextOrNone

\* lines 100-115: the weekday rule, for the first name of the list the text holds
WeekdayRule(s, now) ==
    LET i == CHOOSE j \in 1..7 : Contains(s, WeekdayNames[j]) /\ \A k \in 1..(j - 1) : ~Contains(s, WeekdayNames[k])
    IN  AddDays(now, DaysAhead(i - 1, Weekday(now), Contains(s, WordNext)))

\* parse_datetime with the weekday test ahead of the 'tomorrow' test
parse_datetime_weekdayFirst(txt, now) ==
    LET s == Strip(Lower(txt))
        found == IF Contains(s, WordToday) THEN Some(now)
                 ELSE IF \E j \in 1..7 : Contains(s, WeekdayNames[j]) THEN Some(WeekdayRule(s, now))
                 ELSE IF Contains(s, WordTomorrow) THEN Some(AddDays(now, 1))
                 ELSE DayOfMonthRule(s, now)
    IN  [date |-> IF IsNone(found) THEN now ELSE Val(found), time |-> ExtractTime(s)]
\* parse_datetime(text) on clock date now: (event_date, event_time)
parse_datetime(txt, now) ==
    LET s == Strip(Lower(txt))
        found == IF Contains(s, WordToday) THEN Some(now)
                 ELSE IF Contains(s, WordTomorrow) THEN Some(AddDays(now, 1))
                 ELSE IF \E j \in 1..7 : Contains(s, WeekdayNames[j]) THEN Some(WeekdayRule(s, now))
                 ELSE DayOfMonthRule(s, now)
    IN  [date |-> IF IsNone(found) THEN now ELSE Val(found), time |-> ExtractTime(s)]

(***************************************************************************)
(* CalendarBot.extract_title of main.py                                    *)
(***************************************************************************)
\* the ways \d{1,2}:?\d{0,2} can be taken, in backtracking order
TitleTimeWays == << [n1 |-> 2, c |-> 1, n2 |-> 2], [n1 |-> 2, c |-> 1, n2 |-> 1], [n1 |-> 2, c |-> 1, n2 |-> 0],
                    [n1 |-> 2, c |-> 0, n2 |-> 2], [n1 |-> 2, c |-> 0, n2 |-> 1], [n1 |-> 2, c |-> 0, n2 |-> 0],
                    [n1 |-> 1, c |-> 1, n2 |-> 2], [n1 |-> 1, c |-> 1, n2 |-> 1], [n1 |-> 1, c |-> 1, n2 |-> 0],
                    [n1 |-> 1, c |-> 0, n2 |-> 2], [n1 |-> 1, c |-> 0, n2 |-> 1], [n1 |-> 1, c |-> 0, n2 |-> 0] >>
\* the lower-case word w is at p of s in some letter case (re.IGNORECASE)
MatchAtAnyCase(s, p, w) == p + Len(w) - 1 <= Len(s) /\ Lower(SubSeq(s, p, p + Len(w) - 1)) = w
\* r'\d{1,2}:?\d{0,2}\s*(am|pm)' with re.IGNORECASE matches at p taken way w
TitleTimeWayFits(s, p, w) ==
    /\ DigitRun(s, p) >= w.n1
    /\ w.c = 1 => CharAt(s, p + w.n1) = ":"
    /\ DigitRun(s, p + w.n1 + w.c) >= w.n2
    /\ \/ MatchAtAnyCase(s, MeridiemPos(s, p, w), <<"a", "m">>)
       \/ MatchAtAnyCase(s, MeridiemPos(s, p, w), <<"p", "m">>)
\* line 152: the length of the time pattern's match at p
TitleTimeLen(s, p) ==
    IF ~IsDigit(CharAt(s, p)) THEN 0
    ELSE IF \E k \in 1..Len(TitleTimeWays) : TitleTimeWayFits(s, p, TitleTimeWays[k])
    THEN LET k == CHOOSE j \in 1..Len(TitleTimeWays) :
                      TitleTimeWayFits(s, p, TitleTimeWays[j]) /\ \A i \in 1..(j - 1) : ~TitleTimeWayFits(s, p, TitleTimeWays[i])
         IN  MeridiemPos(s, p, TitleTimeWays[k]) + 2 - p
    ELSE 0

\* lines 155-157
Keywords == << <<"t", "o", "d", "a", "y">>, <<"t", "o", "m", "o", "r", "r", "o", "w">>, <<"o", "n">>, <<"a", "t">>,
               <<"t", "h", "e">>, <<"n", "e", "x", "t">>,
               <<"m", "o", "n", "d", "a", "y">>, <<"t", "u", "e", "s", "d", "a", "y">>,
               <<"w", "e", "d", "n", "e", "s", "d", "a", "y">>, <<"t", "h", "u", "r", "s", "d", "a", "y">>,
               <<"f", "r", "i", "d", "a", "y">>, <<"s", "a", "t", "u", "r", "d", "a", "y">>,
               <<"s", "u", "n", "d", "a", "y">>,
               <<"s", "t">>, <<"n", "d">>, <<"r", "d">>, <<"t", "h">> >>
\* line 160: the length of the match of r'\b' + keyword + r'\b', with re.IGNORECASE, at p
KeywordLen(keyword, s, p) ==
    IF /\ MatchAtAnyCase(s, p, keyword)
       /\ p = 1 \/ ~IsWordChar(s[p - 1])
       /\ ~IsWordChar(CharAt(s, p + Len(keyword)))
    THEN Len(keyword) ELSE 0
\* line 163: the length of the match of r'\b\d{1,2}\b' at p
DayNumberLen(s, p) ==
    IF ~IsDigit(CharAt(s, p)) \/ (p > 1 /\ IsWordChar(s[p - 1])) THEN 0
    ELSE IF DigitRun(s, p) >= 2 /\ ~IsWordChar(CharAt(s, p + 2)) THEN 2
    ELSE IF ~IsWordChar(CharAt(s, p + 1)) THEN 1
    ELSE 0
\* the three kinds of pattern extract_title removes
TimePattern == [kind |-> "time", word |-> <<>>]
KeywordPattern(keyword) == [kind |-> "keyword", word |-> keyword]
DayNumberPattern == [kind |-> "day", word |-> <<>>]
\* the length of the pattern's match at p, 0 for none
MatchLen(pattern, s, p) ==
    CASE pattern.kind = "time" -> TitleTimeLen(s, p)
      [] pattern.kind = "keyword" -> KeywordLen(pattern.word, s, p)
      [] OTHER -> DayNumberLen(s, p)
\* the start of the leftmost match of the pattern at or after p, 0 for none
NextMatch(pattern, s, p) ==
    IF \E q \in p..Len(s) : MatchLen(pattern, s, q) > 0
    THEN CHOOSE q \in p..Len(s) :
             MatchLen(pattern, s, q) > 0 /\ \A r \in p..(q - 1) : MatchLen(pattern, s, r) = 0
    ELSE 0
\* re.sub(pattern, '', s): the text without the non-overlapping matches, found
\* left to right; the scan resumes after each match
RECURSIVE ReSubFrom(_, _, _)
ReSubFrom(pattern, s, p) ==
    LET q == NextMatch(pattern, s, p)
    IN  IF q = 0 THEN Drop(s, p - 1)
        ELSE SubSeq(s, p, q - 1) \o ReSubFrom(pattern, s, q + MatchLen(pattern, s, q))
ReSub(pattern, s) == ReSubFrom(pattern, s, 1)
\* lines 159-160: the keywords removed one after the other, from the i-th on
RECURSIVE StripKeywords(_, _)
StripKeywords(s, i) ==
    IF i > Len(Keywords) \/ s = <<>> THEN s
    ELSE StripKeywords(ReSub(KeywordPattern(Keywords[i]), s), i + 1)

\* ' '.join(words)
RECURSIVE Join(_)
Join(words) == IF words = <<>> THEN <<>>
               ELSE IF Len(words) = 1 THEN words[1]
               ELSE words[1] \o <<" ">> \o Join(Tail(words))
Placeholder == <<"E", "v", "e", "n", "t">>

\* extract_title(text)
extract_title(txt) ==
    LET noTime == ReSub(TimePattern, txt)
        noKeywords == StripKeywords(noTime, 1)
        noNumbers == ReSub(DayNumberPattern, noKeywords)
        joined == Strip(Join(Split(noNumbers)))
    IN  IF joined = <<>> THEN Placeholder ELSE joined

(***************************************************************************)
(* Inputs.  Each input is a record of parts (inp) and the text written     *)
(* from them (text); the code only ever sees the text.                     *)
(***************************************************************************)
\* n written with at least w digits
RECURSIVE PadTo(_, _)
PadTo(n, w) == IF Len(Dec(n)) >= w THEN Dec(n) ELSE <<"0">> \o PadTo(n, w - 1)
RECURSIVE Pow10(_)
Pow10(k) == IF k = 0 THEN 1 ELSE 10 * Pow10(k - 1)
Spaces(n) == [i \in 1..n |-> " "]

\* "am"/"pm" in a letter case
Cased(mer, cas) == CASE cas = "lower" -> <<mer[1], "m">>
                     [] cas = "upper" -> <<(IF mer[1] = "a" THEN "A" ELSE "P"), "M">>
                     [] OTHER -> <<(IF mer[1] = "a" THEN "A" ELSE "P"), "m">>

\* the time tokens: 12-hour tokens H[:MM][ ](am|pm) and digits-only tokens
TimeInputs ==
    [kind : {"h12"}, h : 0..MaxHourTok, width : {1, 2}, mm : (-1)..MaxMinuteTok,
     sp : {0, 1}, mer : {<<"a", "m">>, <<"p", "m">>}, cas : {"lower", "upper", "mixed"}]
    \cup
    { r \in [kind : {"digits"}, h : 0..MaxDigitsVal, width : 1..4, mm : {-1},
             sp : {0}, mer : {<<>>}, cas : {"lower"}] : r.h < Pow10(r.width) }

TimeText(r) ==
    IF r.kind = "h12"
    THEN PadTo(r.h, r.width)
         \o (IF r.mm >= 0 THEN <<":">> \o Pad2(r.mm) ELSE <<>>)
         \o Spaces(r.sp) \o Cased(r.mer, r.cas)
    ELSE PadTo(r.h, r.width)

\* the clock dates the date tokens are read on
RefDates == { MkDate(2024, 1, 15), MkDate(2024, 2, 29), MkDate(2024, 3, 1),
              MkDate(2023, 12, 31), MkDate(2025, 6, 15) }
TokenYears == {2023, 2024}

\* the date tokens: DD-MM, DD/MM, DD-MM-YYYY, DD/MM/YYYY, YYYY-MM-DD
DateInputs ==
    [kind : {"dm"}, sep : {"-", "/"}, d : 0..MaxDayTok, m : 0..MaxMonthTok, width : {1, 2}, y : {0}]
    \cup [kind : {"dmy"}, sep : {"-", "/"}, d : 0..MaxDayTok, m : 0..MaxMonthTok, width : {2}, y : TokenYears]
    \cup [kind : {"ymd"}, sep : {"-"}, d : 0..MaxDayTok, m : 0..MaxMonthTok, width : {2}, y : TokenYears]

DateText(r) ==
    CASE r.kind = "dm" -> PadTo(r.d, r.width) \o <<r.sep>> \o PadTo(r.m, r.width)
      [] r.kind = "dmy" -> PadTo(r.d, r.width) \o <<r.sep>> \o PadTo(r.m, r.width) \o <<r.sep>> \o Pad4(r.y)
      [] OTHER -> Pad4(r.y) \o <<r.sep>> \o PadTo(r.m, r.width) \o <<r.sep>> \o PadTo(r.d, r.width)

Idle == /\ tres = None /\ dres = None /\ data = <<>> /\ ics = None
        /\ buildCalls = 0 /\ replies = <<>> /\ docs = <<>> /\ nlres = None /\ clock = 0
        /\ title = None /\ remote = <<>> /\ hs = <<>> /\ fetched = None

(***************************************************************************)
(* SpecTime: parse_time_12_24 applied to every time token.                 *)
(***************************************************************************)
InitTime == /\ pc = "time_start"
            /\ today = MkDate(2024, 1, 15)
            /\ inp \in TimeInputs
            /\ text = TimeText(inp)
            /\ Idle

DoParseTime == /\ pc = "time_start"
               /\ tres' = parse_time_12_24(text)
               /\ pc' = "time_done"
               /\ UNCHANGED <<today, inp, text, dres, data, ics, buildCalls, replies, docs, nlres, clock, title, remote, hs, fetched>>

SpecTime == InitTime /\ [][DoParseTime]_vars

(***************************************************************************)
(* SpecDate: parse_date applied to every date token on every clock date.   *)
(***************************************************************************)
InitDate == /\ pc = "date_start"
            /\ today \in RefDates
            /\ inp \in DateInputs
            /\ text = DateText(inp)
            /\ Idle

DoParseDate == /\ pc = "date_start"
               /\ dres' = parse_date(text, today)
               /\ pc' = "date_done"
               /\ UNCHANGED <<today, inp, text, tres, data, ics, buildCalls, replies, docs, nlres, clock, title, remote, hs, fetched>>

SpecDate == InitDate /\ [][DoParseDate]_vars

(***************************************************************************)
(* Spec: one /event command through event_cmd.                             *)
(***************************************************************************)
NoText == <<"~">>     \* an optional part that was not written
Titles == { <<"T", "e", "a", "m", " ", "S", "y", "n", "c">>,
      <<>> }
DateToks == { <<"2", "5", "-", "0", "8">>,
      <<"2", "0", "2", "5", "-", "0", "8", "-", "2", "6">>,
      <<"2", "6", "/", "0", "8">>,
      <<"2", "9", "-", "0", "2">>,
      <<"3", "1", "-", "0", "4">>,
      <<"9", "9", "9", "9", "-", "1", "2", "-", "3", "1">> }
TimeToks == { <<"1", "0", ":", "0", "0", " ", "A", "M", "-", "1", "1", ":", "1", "5", " ", "A", "M">>,
      <<"9", ":", "0", "0", " ", "P", "M", "-", "1", "0", ":", "3", "0", " ", "P", "M">>,
      <<"1", "0", ":", "0", "0", "A", "M", "-", "1", "1", ":", "1", "5", "A", "M">>,
      <<"1", "1", ":", "0", "0", "-", "1", "0", ":", "0", "0">>,
      <<"1", "0", ":", "0", "0", "-", "1", "0", ":", "0", "0">>,
      <<"8", " ", "P", "M">>,
      <<"1", "4">>,
      <<"2", "3", ":", "3", "0">>,
      <<"2", "5", ":", "0", "0">>,
      <<"9", "-">> }
Locations == { <<"~">>,
      <<"O", "f", "f", "i", "c", "e">>,
      <<"B", "o", "a", "r", "d", "r", "o", "o", "m">> }
Descriptions == { <<"~">>,
      <<"B", "r", "i", "n", "g", " ", "I", "D">> }
\* the numbers written in reminder tokens; -1: no token
ReminderVals == {-1, 0, 15, MAX_REMINDER_MIN, MAX_REMINDER_MIN + 1, 99999, Pow10(MaxReminderDigits) - 1}
CmdDates == { MkDate(2024, 1, 15), MkDate(2025, 9, 1) }

CommandInputs ==
    [kind : {"none", "at"}, title : Titles, date : {NoText}, time : {NoText},
     loc : Locations, desc : Descriptions, rem : ReminderVals, letter : {"r"}]
    \cup [kind : {"date"}, title : Titles, date : DateToks, time : {NoText},
          loc : Locations, desc : Descriptions, rem : ReminderVals, letter : {"r"}]
    \cup [kind : {"full"}, title : Titles, date : DateToks, time : TimeToks,
          loc : Locations, desc : Descriptions, rem : ReminderVals, letter : {"r"}]
    \cup [kind : {"full"}, title : Titles, date : DateToks, time : TimeToks,
          loc : {NoText}, desc : {NoText}, rem : {15}, letter : {"R"}]

\* /event <title> @ <date> <start[-end]> [#location] [!description] [r<mins>]
CommandText(r) ==
    CmdEvent \o <<" ">> \o r.title
    \o (CASE r.kind = "none" -> <<>>
          [] r.kind = "at" -> <<" ", "@">>
          [] r.kind = "date" -> <<" ", "@", " ">> \o r.date
          [] OTHER -> <<" ", "@", " ">> \o r.date \o <<" ">> \o r.time)
    \o (IF r.loc = NoText THEN <<>> ELSE <<" ", "#">> \o r.loc)
    \o (IF r.desc = NoText THEN <<>> ELSE <<" ", "!">> \o r.desc)
    \o (IF r.rem < 0 THEN <<>> ELSE <<" ", r.letter>> \o Dec(r.rem))

Init == /\ pc = "recv"
        /\ today \in CmdDates
        /\ inp \in CommandInputs
        /\ text = CommandText(inp)
        /\ Idle

\* line 253: data = smart_parse(text)
Parse == /\ pc = "recv"
         /\ data' = smart_parse(text, today)
         /\ pc' = "parsed"
         /\ UNCHANGED <<today, inp, text, tres, dres, ics, buildCalls, replies, docs, nlres, clock, title, remote, hs, fetched>>

\* the prompt without its return: the handler falls through to build_ics, which fails
Prompt_noReturn ==
    /\ pc = "parsed"
    /\ HasKey(data, "needs_more")
    /\ buildCalls' = buildCalls + 1
    /\ replies' = replies \o << Reply("prompt", PromptFor(data.needs_more), NoEcho),
                                Reply("sorry", "Sorry, something went wrong creating your event.", NoEcho) >>
    /\ pc' = "done"
    /\ UNCHANGED <<today, inp, text, tres, dres, data, ics, docs, nlres, clock, title, remote, hs, fetched>>
\* lines 255-281: the corrective prompt of an incomplete outcome, then return
Prompt == /\ pc = "parsed"
          /\ HasKey(data, "needs_more")
          /\ replies' = Append(replies, Reply("prompt", PromptFor(data.needs_more), NoEcho))
          /\ pc' = "done"
          /\ UNCHANGED <<today, inp, text, tres, dres, data, ics, buildCalls, docs, nlres, clock, title, remote, hs, fetched>>

\* line 284: ics_bytes = build_ics(data); an error goes to the except clause
Build == /\ pc = "parsed"
         /\ ~HasKey(data, "needs_more")
         /\ buildCalls' = buildCalls + 1
         /\ ics' = Some(build_ics(data, clock))
         /\ pc' = IF build_ics(data, clock).ok THEN "built" ELSE "except"
         /\ UNCHANGED <<today, inp, text, tres, dres, data, replies, docs, nlres, clock, title, remote, hs, fetched>>

\* lines 285-306: the echo of what was parsed
Echo == /\ pc = "built"
        /\ replies' = Append(replies, Reply("ready", "Event ready", EchoOf(data)))
        /\ pc' = "echoed"
        /\ UNCHANGED <<today, inp, text, tres, dres, data, ics, buildCalls, docs, nlres, clock, title, remote, hs, fetched>>

\* line 307: reply_document with the calendar file
SendDoc == /\ pc = "echoed"
           /\ docs' = Append(docs, [filename |-> Underscored(Strip(data.title)) \o DotIcs, payload |-> Val(ics).cal])
           /\ pc' = "done"
           /\ UNCHANGED <<today, inp, text, tres, dres, data, ics, buildCalls, replies, nlres, clock, title, remote, hs, fetched>>

\* lines 308-310: the reply of the except clause
Sorry == /\ pc = "except"
         /\ replies' = Append(replies, Reply("sorry", "Sorry, something went wrong creating your event.", NoEcho))
         /\ pc' = "done"
         /\ UNCHANGED <<today, inp, text, tres, dres, data, ics, buildCalls, docs, nlres, clock, title, remote, hs, fetched>>

Next == Parse \/ Prompt \/ Build \/ Echo \/ SendDoc \/ Sorry

Spec == Init /\ [][Next]_vars

(***************************************************************************)
(* SpecNL: parse_datetime applied to free-text messages.                   *)
(***************************************************************************)
NLTitles == { <<"D", "i", "n", "n", "e", "r">>, <<"C", "a", "l", "l", " ", "d", "e", "n", "t", "i", "s", "t">> }
\* the date cue written after the title: none, a keyword or a weekday name
NLCues == { NoText, WordToday, WordTomorrow } \cup { WeekdayNames[j] : j \in 1..7 }
\* the day number written, -1 for none
NLDayNumbers == {-1, 5, 19, 30, 31}
NLTimes == { <<"~">>, <<"9", " ", "p", "m">>, <<"6", ":", "3", "0", " ", "P", "M">>, <<"1", "2", "a", "m">>, <<"1", "3", " ", "p", "m">>, <<"9", ":", "7", "5", " ", "p", "m">> }
NLRefDates == { AddDays(MkDate(2024, 12, 28), k) : k \in 0..(NLDays - 1) }
              \cup { MkDate(2025, 1, 31), MkDate(2025, 4, 30) }

\* a second cue written after the first
NLAlso == { WordToday, WordTomorrow, WeekdayNames[5] }

MessageInputs ==
    [title : NLTitles, next : BOOLEAN, cue : NLCues, also : {NoText}, day : NLDayNumbers,
     ordinal : BOOLEAN, time : NLTimes]
    \cup [title : {<<"D", "i", "n", "n", "e", "r">>}, next : {FALSE}, cue : NLCues \ {NoText}, also : NLAlso,
          day : {-1, 19}, ordinal : {FALSE}, time : {NoText, <<"9", " ", "p", "m">>}]
    \cup [title : {<<>>}, next : BOOLEAN, cue : {NoText, WordToday}, also : {NoText},
          day : {-1, 19}, ordinal : BOOLEAN, time : {NoText, <<"9", " ", "p", "m">>}]

\* "<title> [next] [<cue>] [<also>] [on the <day>[th]] [at <time>]"
MessageText(r) ==
    r.title
    \o (IF r.next THEN <<" ">> \o WordNext ELSE <<>>)
    \o (IF r.cue = NoText THEN <<>> ELSE <<" ">> \o r.cue)
    \o (IF r.also = NoText THEN <<>> ELSE <<" ">> \o r.also)
    \o (IF r.day < 0 THEN <<>>
        ELSE <<" ", "o", "n", " ", "t", "h", "e", " ">> \o Dec(r.day) \o (IF r.ordinal THEN <<"t", "h">> ELSE <<>>))
    \o (IF r.time = NoText THEN <<>> ELSE <<" ", "a", "t", " ">> \o r.time)

InitNL == /\ pc = "nl_start"
          /\ today \in NLRefDates
          /\ inp \in { r \in MessageInputs : r.day >= 0 \/ ~r.ordinal }
          /\ text = MessageText(inp)
          /\ Idle

\* line 413: event_date, event_time = bot.parse_datetime(user_message)
DoParseDatetime == /\ pc = "nl_start"
                   /\ nlres' = Some(parse_datetime(text, today))
                   /\ pc' = "nl_done"
                   /\ UNCHANGED <<today, inp, text, tres, dres, data, ics, buildCalls, replies, docs, clock, title, remote, hs, fetched>>

SpecNL == InitNL /\ [][DoParseDatetime]_vars

(***************************************************************************)
(* SpecTitle: extract_title applied to free-text messages.                 *)
(***************************************************************************)
InitTitle == /\ pc = "title_start"
             /\ today = MkDate(2024, 12, 28)
             /\ inp \in { r \in MessageInputs : (r.day >= 0 \/ ~r.ordinal) /\ ~r.next }
             /\ text = MessageText(inp)
             /\ Idle

\* line 414: title = bot.extract_title(user_message)
DoExtractTitle == /\ pc = "title_start"
                  /\ title' = Some(extract_title(text))
                  /\ pc' = "title_done"
                  /\ UNCHANGED <<today, inp, text, tres, dres, data, ics, buildCalls, replies, docs, nlres, clock, remote, hs, fetched>>

SpecTitle == InitTitle /\ [][DoExtractTitle]_vars

(***************************************************************************)
(* SpecConc: several /event commands handled side by side, one event_cmd   *)
(* task per command.  Each handler has its own locals (hs[i]); the tasks   *)
(* share the clock.  A step of a handler, or a tick of the clock, may come *)
(* between any two steps of another handler.                               *)
(***************************************************************************)
Handlers == 1..NHandlers
ConcCommands ==
    { CmdEvent \o <<" ", "A", " ", "@", " ", "2", "5", "-", "0", "8", " ", "1", "0", ":", "0", "0">>,
      CmdEvent \o <<" ", "B", " ", "@", " ", "9", "9", "9", "9", "-", "1", "2", "-", "3", "1", " ", "2", "3", ":", "3", "0", " ", "r", "1", "5">>,
      CmdEvent \o <<" ", "C">>,
      CmdEvent \o <<" ", "D", " ", "@", " ", "2", "6", "/", "0", "8", " ", "1", "1", ":", "0", "0", "-", "1", "0", ":", "0", "0", " ", "#", "H", "Q">> }
\* the locals of a handler that has read its command
Received(command_text) ==
    [text |-> command_text, pc |-> "recv", data |-> <<>>, ics |-> None, replies |-> <<>>, docs |-> <<>>]

InitConc == /\ pc = "conc"
            /\ today = MkDate(2024, 1, 15)
            /\ inp \in [Handlers -> ConcCommands]
            /\ text = <<>>
            /\ tres = None /\ dres = None /\ data = <<>> /\ ics = None
            /\ buildCalls = 0 /\ replies = <<>> /\ docs = <<>> /\ nlres = None /\ clock = 0
            /\ title = None /\ remote = <<>> /\ fetched = None
            /\ hs = [i \in Handlers |-> Received(inp[i])]

\* the handlers' dicts are one dict of the module: a parse overwrites the dict
\* of every handler that has not built yet
CParse_sharedDict(i) ==
    /\ hs[i].pc = "recv"
    /\ hs' = [j \in Handlers |->
                 IF j = i THEN [hs[j] EXCEPT !.data = smart_parse(hs[i].text, today), !.pc = "parsed"]
                 ELSE IF hs[j].pc = "parsed" THEN [hs[j] EXCEPT !.data = smart_parse(hs[i].text, today)]
                 ELSE hs[j]]
    /\ UNCHANGED <<today, inp, text, pc, tres, dres, data, ics, buildCalls, replies, docs, nlres, clock, title, remote, fetched>>
\* line 253: data = smart_parse(text), a dict of this call
CParse(i) ==
    /\ hs[i].pc = "recv"
    /\ hs' = [hs EXCEPT ![i].data = smart_parse(hs[i].text, today), ![i].pc = "parsed"]
    /\ UNCHANGED <<today, inp, text, pc, tres, dres, data, ics, buildCalls, replies, docs, nlres, clock, title, remote, fetched>>

\* lines 255-281
CPrompt(i) ==
    /\ hs[i].pc = "parsed"
    /\ HasKey(hs[i].data, "needs_more")
    /\ hs' = [hs EXCEPT ![i].replies = Append(@, Reply("prompt", PromptFor(hs[i].data.needs_more), NoEcho)),
                        ![i].pc = "done"]
    /\ UNCHANGED <<today, inp, text, pc, tres, dres, data, ics, buildCalls, replies, docs, nlres, clock, title, remote, fetched>>

\* line 284: build_ics reads the clock for the uid and the timestamp
CBuild(i) ==
    /\ hs[i].pc = "parsed"
    /\ ~HasKey(hs[i].data, "needs_more")
    /\ hs' = [hs EXCEPT ![i].ics = Some(build_ics(hs[i].data, clock)),
                        ![i].pc = IF build_ics(hs[i].data, clock).ok THEN "built" ELSE "except"]
    /\ UNCHANGED <<today, inp, text, pc, tres, dres, data, ics, buildCalls, replies, docs, nlres, clock, title, remote, fetched>>

\* lines 285-306
CEcho(i) ==
    /\ hs[i].pc = "built"
    /\ hs' = [hs EXCEPT ![i].replies = Append(@, Reply("ready", "Event ready", EchoOf(hs[i].data))),
                        ![i].pc = "echoed"]
    /\ UNCHANGED <<today, inp, text, pc, tres, dres, data, ics, buildCalls, replies, docs, nlres, clock, title, remote, fetched>>

\* line 307
CSendDoc(i) ==
    /\ hs[i].pc = "echoed"
    /\ hs' = [hs EXCEPT ![i].docs = Append(@, [filename |-> Underscored(Strip(hs[i].data.title)) \o DotIcs,
                                                payload |-> Val(hs[i].ics).cal]),
                        ![i].pc = "done"]
    /\ UNCHANGED <<today, inp, text, pc, tres, dres, data, ics, buildCalls, replies, docs, nlres, clock, title, remote, fetched>>

\* lines 308-310
CSorry(i) ==
    /\ hs[i].pc = "except"
    /\ hs' = [hs EXCEPT ![i].replies = Append(@, Reply("sorry", "Sorry, something went wrong creating your event.", NoEcho)),
                        ![i].pc = "done"]
    /\ UNCHANGED <<today, inp, text, pc, tres, dres, data, ics, buildCalls, replies, docs, nlres, clock, title, remote, fetched>>

\* the clock's second passes
Tick ==
    /\ pc = "conc"
    /\ clock < MaxClock
    /\ clock' = clock + 1
    /\ UNCHANGED <<today, inp, text, pc, tres, dres, data, ics, buildCalls, replies, docs, nlres, title, remote, hs, fetched>>

NextConc ==
    \/ Tick
    \/ \E i \in Handlers : CParse(i)
    \/ \E i \in Handlers : CPrompt(i)
    \/ \E i \in Handlers : CBuild(i)
    \/ \E i \in Handlers : CEcho(i)
    \/ \E i \in Handlers : CSendDoc(i)
    \/ \E i \in Handlers : CSorry(i)

SpecConc == InitConc /\ [][NextConc]_vars

(***************************************************************************)
(* SpecEdit: one /editevent command through edit_event_command.  The       *)
(* calendar service is reliable; its events are records of id, summary,    *)
(* date and time of the start (time None: an all-day event) and of the end.*)
(***************************************************************************)
DurationHours == 1
\* stands for the bell sign that starts the summary of a reminder
Bell == "^"
EditStopList == { <<"c", "h", "a", "n", "g", "e">>, <<"u", "p", "d", "a", "t", "e">>, <<"m", "o", "v", "e">>,
                  <<"n", "e", "x", "t">>, <<"t", "h", "i", "s">>, <<"t", "h", "a", "t">>,
                  WordTomorrow, WordToday }
\* [w for w in words if len(w) > 3 and w not in [...]]
RECURSIVE KeywordWords(_)
KeywordWords(words) ==
    IF words = <<>> THEN <<>>
    ELSE (IF Len(words[1]) > 3 /\ words[1] \notin EditStopList THEN <<words[1]>> ELSE <<>>)
         \o KeywordWords(Tail(words))
\* lines 445-446: the first three words longer than 3 letters other than the stop list's
EditKeywords(user_message) ==
    LET kept == KeywordWords(Split(Lower(user_message)))
    IN  Take(kept, Min(3, Len(kept)))
\* lines 222-227: the event matches: not a reminder, and a keyword is in its lowered summary
EventMatches(ev, keywords) ==
    /\ ~MatchAt(ev.summary, 1, <<Bell>>)
    /\ \E k \in 1..Len(keywords) : Contains(Lower(ev.summary), keywords[k])
\* find_event_by_keywords: the place of the first matching event, 0 for None
find_event_by_keywords(events, keywords) == FirstPos(events, LAMBDA i : EventMatches(events[i], keywords))

FormatEdit == <<"%H", ":", "%M">>
\* lines 241-251: the event with the new summary, start and end
UpdatedEvent(ev, new_title, event_date, event_time) ==
    IF IsNone(event_time)
    THEN [ev EXCEPT !.summary = new_title, !.date = event_date, !.time = None,
                    !.end_date = event_date, !.end_time = None]
    ELSE LET t == Val(strptime(Val(event_time), FormatEdit))
             start == MkDateTime(event_date, t.H, t.M)
             end == AddMinutes(start, DurationHours * 60)
         IN  [ev EXCEPT !.summary = new_title, !.date = event_date, !.time = Some(MkTime(start.hour, start.minute)),
                        !.end_date = end.date, !.end_time = Some(MkTime(end.hour, end.minute))]

EvGraduation == [id |-> 1, summary |-> <<"G", "r", "a", "d", "u", "a", "t", "i", "o", "n", " ", "D", "a", "y">>,
                 date |-> MkDate(2025, 3, 10), time |-> Some(MkTime(15, 0)),
                 end_date |-> MkDate(2025, 3, 10), end_time |-> Some(MkTime(17, 0))]
EvStandup == [id |-> 2, summary |-> <<"F", "r", "i", "d", "a", "y", " ", "s", "t", "a", "n", "d", "u", "p">>,
              date |-> MkDate(2025, 1, 10), time |-> None,
              end_date |-> MkDate(2025, 1, 10), end_time |-> None]
EvReminder == [id |-> 3, summary |-> <<Bell, " ", "G", "r", "a", "d", "u", "a", "t", "i", "o", "n", " ", "c", "a", "l", "l">>,
               date |-> MkDate(2025, 1, 5), time |-> Some(MkTime(9, 0)),
               end_date |-> MkDate(2025, 1, 5), end_time |-> Some(MkTime(9, 15))]
Calendars == { <<EvReminder, EvStandup, EvGraduation>>, <<EvGraduation>>, <<>> }

EditSubjects == { <<"g", "r", "a", "d", "u", "a", "t", "i", "o", "n">>,
                  <<"C", "h", "a", "n", "g", "e", " ", "g", "r", "a", "d", "u", "a", "t", "i", "o", "n", " ", "t", "o">>,
                  <<"f", "r", "i", "d", "a", "y">>,
                  <<"d", "i", "n", "n", "e", "r">>,
                  <<>> }
EditCues == { NoText, WordTomorrow, <<"n", "e", "x", "t", " ", "M", "o", "n", "d", "a", "y">> }
EditTimes == { NoText, <<"3", " ", "P", "M">>, <<"1", "3", " ", "p", "m">> }
EditInputs == [subject : EditSubjects, cue : EditCues, time : EditTimes]
\* ' '.join(context.args) of "<subject> [<cue>] [at <time>]"
EditText(r) ==
    Join(Split(r.subject
               \o (IF r.cue = NoText THEN <<>> ELSE <<" ">> \o r.cue)
               \o (IF r.time = NoText THEN <<>> ELSE <<" ", "a", "t", " ">> \o r.time)))

InitEdit == /\ pc = "edit_start"
            /\ today \in { MkDate(2024, 12, 28), MkDate(2025, 1, 3) }
            /\ inp \in EditInputs
            /\ text = EditText(inp)
            /\ tres = None /\ dres = None /\ data = <<>> /\ ics = None
            /\ buildCalls = 0 /\ replies = <<>> /\ docs = <<>> /\ nlres = None /\ clock = 0
            /\ title = None /\ remote \in Calendars /\ hs = <<>> /\ fetched = None

\* lines 434-439: a command without words is answered with the example
EditNoArgs ==
    /\ pc = "edit_start"
    /\ text = <<>>
    /\ replies' = Append(replies, Reply("usage", "Please provide event details!", NoEcho))
    /\ pc' = "edit_done"
    /\ UNCHANGED <<today, inp, text, tres, dres, data, ics, buildCalls, docs, nlres, clock, title, remote, hs, fetched>>

\* lines 445-458: the keywords, and the event they find
EditFind ==
    /\ pc = "edit_start"
    /\ text # <<>>
    /\ LET keywords == EditKeywords(text)
           i == find_event_by_keywords(remote, keywords)
       IN  IF keywords = <<>>
           THEN /\ replies' = Append(replies, Reply("which", "Please specify which event to edit.", NoEcho))
                /\ pc' = "edit_done"
                /\ fetched' = fetched
           ELSE IF i = 0
           THEN /\ replies' = Append(replies, Reply("notfound", "Couldn't find an event matching your description.", NoEcho))
                /\ pc' = "edit_done"
                /\ fetched' = fetched
           ELSE /\ fetched' = Some([at |-> i, record |-> remote[i]])
                /\ pc' = "edit_found"
                /\ replies' = replies
    /\ UNCHANGED <<today, inp, text, tres, dres, data, ics, buildCalls, docs, nlres, clock, title, remote, hs>>

\* lines 460-465: the date, the time and the title of the message
EditParse ==
    /\ pc = "edit_found"
    /\ nlres' = Some(parse_datetime(text, today))
    /\ title' = Some(IF Lower(extract_title(text)) = Lower(Placeholder)
                     THEN Val(fetched).record.summary
                     ELSE extract_title(text))
    /\ pc' = "edit_parsed"
    /\ UNCHANGED <<today, inp, text, tres, dres, data, ics, buildCalls, replies, docs, clock, remote, hs, fetched>>

\* line 467: bot.update_event(event['id'], title, event_date, event_time);
\* a time strptime rejects raises ValueError before the calendar is written
EditUpdate ==
    /\ pc = "edit_parsed"
    /\ LET event_date == Val(nlres).date
           event_time == Val(nlres).time
           i == Val(fetched).at
       IN  IF ~IsNone(event_time) /\ IsNone(strptime(Val(event_time), FormatEdit))
           THEN /\ pc' = "edit_except"
                /\ remote' = remote
           ELSE /\ pc' = "edit_updated"
                /\ remote' = [remote EXCEPT ![i] = UpdatedEvent(remote[i], Val(title), event_date, event_time)]
    /\ UNCHANGED <<today, inp, text, tres, dres, data, ics, buildCalls, replies, docs, nlres, clock, title, hs, fetched>>

\* lines 469-479: the confirmation
EditReply ==
    /\ pc = "edit_updated"
    /\ replies' = Append(replies, Reply("updated", "Event updated!",
                                        [title |-> Val(title), date |-> Val(nlres).date, time |-> Val(nlres).time]))
    /\ pc' = "edit_done"
    /\ UNCHANGED <<today, inp, text, tres, dres, data, ics, buildCalls, docs, nlres, clock, title, remote, hs, fetched>>

\* lines 480-481: the reply of the except clause
EditSorry ==
    /\ pc = "edit_except"
    /\ replies' = Append(replies, Reply("error", "Error editing event", NoEcho))
    /\ pc' = "edit_done"
    /\ UNCHANGED <<today, inp, text, tres, dres, data, ics, buildCalls, docs, nlres, clock, title, remote, hs, fetched>>

NextEdit == EditNoArgs \/ EditFind \/ EditParse \/ EditUpdate \/ EditReply \/ EditSorry

SpecEdit == InitEdit /\ [][NextEdit]_vars

(***************************************************************************)
(* The claims.                                                             *)
(***************************************************************************)
\* the handler has the parser's result
Parsed == pc \in {"parsed", "built", "except", "echoed", "done"}
Complete(d) == HasKey(d, "title") /\ ~HasKey(d, "needs_more")
\* an "HH:MM" text as minutes of the day
MinutesOf(hm) == HourOf(hm) * 60 + MinuteOf(hm)
\* the text is HH:MM with HH in 00..23 and MM in 00..59
ValidHM(hm) == /\ Len(hm) = 5
               /\ hm[3] = ":"
               /\ \A i \in {1, 2, 4, 5} : IsDigit(hm[i])
               /\ HourOf(hm) \in 0..23
               /\ MinuteOf(hm) \in 0..59
\* the text is YYYY-MM-DD and names a day of the calendar
ValidIsoText(d) == /\ Len(d) = 10
                   /\ d[5] = "-" /\ d[8] = "-"
                   /\ \A i \in {1, 2, 3, 4, 6, 7, 9, 10} : IsDigit(d[i])
                   /\ ValidDate(FromIso(d).year, FromIso(d).month, FromIso(d).day)
GoodDateToks == { <<"2", "5", "-", "0", "8">>, <<"2", "0", "2", "5", "-", "0", "8", "-", "2", "6">>, <<"2", "6", "/", "0", "8">> }
TheEvent == Val(ics).cal[1].events[1]

\* C1: a schedule '<date> <start>-<end>' whose start and end are 12-hour times
\* written with a space before AM/PM gives a completed record with both ends of
\* the range; '/event Team Sync @ 25-08 10:00 AM-11:15 AM #Office r15' gives title
\* 'Team Sync', location 'Office', reminder 15, start 10:00, end 11:15.
C1_SpacedRangeParsed ==
    \A r \in { [txt |-> <<"1", "0", ":", "0", "0", " ", "A", "M", "-", "1", "1", ":", "1", "5", " ", "A", "M">>, start |-> <<"1", "0", ":", "0", "0">>, end |-> <<"1", "1", ":", "1", "5">>],
               [txt |-> <<"9", ":", "0", "0", " ", "P", "M", "-", "1", "0", ":", "3", "0", " ", "P", "M">>, start |-> <<"2", "1", ":", "0", "0">>, end |-> <<"2", "2", ":", "3", "0">>] } :
        (pc = "parsed" /\ inp.kind = "full" /\ inp.time = r.txt /\ inp.date \in GoodDateToks)
        => /\ Complete(data)
           /\ data.start_time = r.start
           /\ data.end_time = Some(r.end)
           /\ (inp.title = <<"T", "e", "a", "m", " ", "S", "y", "n", "c">> /\ inp.loc = <<"O", "f", "f", "i", "c", "e">> /\ inp.rem = 15)
              => (data.title = <<"T", "e", "a", "m", " ", "S", "y", "n", "c">> /\ data.location = Some(<<"O", "f", "f", "i", "c", "e">>) /\ data.reminder = 15)

\* C2: a standalone reminder token r<digits> of value n, with any number of
\* digits, gives reminder = n clamped to [0, MAX_REMINDER_MIN]; the reminder of
\* every returned record is in that range.
C2_ReminderClamped ==
    Parsed => /\ data.reminder \in 0..MAX_REMINDER_MIN
              /\ inp.rem >= 0 => data.reminder = (IF inp.rem > MAX_REMINDER_MIN THEN MAX_REMINDER_MIN ELSE inp.rem)

\* C3: a digits-only token of one or two digits naming an hour HH in 0..23 is
\* read as HH:00; a four-digit token HHMM is read as HH:MM.
C3_BareHour ==
    (pc = "time_done" /\ inp.kind = "digits")
    => /\ (inp.width \in {1, 2} /\ inp.h \in 0..23) => tres = Some(MkTime(inp.h, 0))
       /\ (inp.width = 4 /\ (inp.h \div 100) \in 0..23 /\ (inp.h % 100) \in 0..59)
          => tres = Some(MkTime(inp.h \div 100, inp.h % 100))

\* strftime('%I:%M %p') of main.py: the 12-hour display of a time
Display12(t) == Pad2(IF t.hour % 12 = 0 THEN 12 ELSE t.hour % 12) \o <<":">> \o Pad2(t.minute)
                \o <<" ">> \o (IF t.hour < 12 THEN <<"A", "M">> ELSE <<"P", "M">>)

\* C4: a 12-hour token H[:MM](am|pm), with an optional space before the meridiem
\* and in any letter case, with H in 1..12 and MM in 0..59, is read as minute MM
\* and hour 0 for 12am, 12 for 12pm, H+12 for other pm hours, H for other am
\* hours; the hour is in 0..23 and the 12-hour display of the result is H, MM
\* and the meridiem again.  With H outside 1..12 or MM outside 0..59 the token
\* fails and is not read by the 24-hour forms.
C4_MeridiemConversion ==
    (pc = "time_done" /\ inp.kind = "h12")
    => LET mm == IF inp.mm < 0 THEN 0 ELSE inp.mm
           am == inp.mer = <<"a", "m">>
       IN  IF inp.h \in 1..12 /\ mm \in 0..59
           THEN /\ ~IsNone(tres)
                /\ Val(tres).minute = mm
                /\ Val(tres).hour = (CASE inp.h = 12 /\ am -> 0
                                       [] inp.h = 12 /\ ~am -> 12
                                       [] inp.h # 12 /\ am -> inp.h
                                       [] OTHER -> inp.h + 12)
                /\ Val(tres).hour \in 0..23
                /\ Display12(Val(tres)) = Pad2(inp.h) \o <<":">> \o Pad2(mm) \o <<" ">> \o Cased(inp.mer, "upper")
           ELSE tres = None
C4_Witness ==
    /\ pc = "time_done" /\ inp.kind = "h12" /\ inp.h = 12 /\ inp.mm = 30
    /\ inp.mer = <<"p", "m">> /\ inp.sp = 1 /\ inp.cas = "mixed"
    /\ tres = Some(MkTime(12, 30))

C6_EffectiveEnd ==
    (pc \in {"built", "except"})
    => LET start == MkDateTime(FromIso(data.date), HourOf(data.start_time), MinuteOf(data.start_time))
           later == ~IsNone(data.end_time) /\ MinutesOf(Val(data.end_time)) > MinutesOf(data.start_time)
       IN  /\ Val(ics).ok
           /\ TheEvent.dtstart = start
           /\ TheEvent.dtend = (IF later
                                THEN MkDateTime(start.date, HourOf(Val(data.end_time)), MinuteOf(Val(data.end_time)))
                                ELSE AddMinutes(start, DEFAULT_DURATION_MIN))
           /\ ~DateTimeLeq(TheEvent.dtend, TheEvent.dtstart)

\* the location and the reminder written are carved out whole: the location has
\* no 'r', where the location pattern stops, and the reminder at most 5 digits
CarvedClean == inp.loc # <<"B", "o", "a", "r", "d", "r", "o", "o", "m">> /\ inp.rem < Pow10(5)
\* the outcome the claim's order of tests gives for a working text
ExpectedOutcome(w, tdy) ==
    LET toks == Split(Drop(w, Find(w, <<"@">>)))
        dash == Find(toks[2], <<"-">>)
    IN  IF ~Contains(w, <<"@">>) THEN "schedule"
        ELSE IF Len(toks) < 2 THEN "date_time"
        ELSE IF IsNone(parse_date(toks[1], tdy)) THEN "date"
        ELSE IF dash > 0 /\ (IsNone(parse_time_12_24(Take(toks[2], dash - 1))) \/ IsNone(parse_time_12_24(Drop(toks[2], dash))))
             THEN "time_range"
        ELSE IF dash = 0 /\ IsNone(parse_time_12_24(toks[2])) THEN "time"
        ELSE "complete"

\* C7: smart_parse returns a completed record, or a record with one needs_more
\* tag and no date or start_time; the tag is 'schedule' when the working text has
\* no '@', else 'date_time' when fewer than two tokens follow the '@', else 'date'
\* when the first is no valid date, else 'time_range' when the second contains
\* '-' and a side of it is no valid time, else 'time' when it is no valid time.
C7_TagOrder ==
    Parsed
    => /\ IF HasKey(data, "needs_more")
          THEN /\ data.needs_more = ExpectedOutcome(CarveOut(text).text, today)
               /\ ~HasKey(data, "date") /\ ~HasKey(data, "start_time") /\ ~HasKey(data, "end_time")
          ELSE /\ ExpectedOutcome(CarveOut(text).text, today) = "complete"
               /\ HasKey(data, "date") /\ HasKey(data, "start_time")
       /\ inp.kind = "none" => (HasKey(data, "needs_more") /\ data.needs_more = "schedule")
       /\ (inp.kind \in {"at", "date"} /\ CarvedClean) => (HasKey(data, "needs_more") /\ data.needs_more = "date_time")
C7_Witness ==
    /\ pc = "parsed" /\ inp.date = <<"3", "1", "-", "0", "4">> /\ inp.time = <<"2", "5", ":", "0", "0">>
    /\ HasKey(data, "needs_more") /\ data.needs_more = "date"

\* C8: while one /event command is handled build_ics is invoked once when the
\* outcome is complete and never when it carries a needs_more tag; on a tagged
\* outcome the handler sends one corrective prompt, the one of the tag, and no
\* calendar file.
C8_BuildOncePromptOnce ==
    LET expected == [schedule |-> "Add schedule after '@'.",
                     date_time |-> "Add date and time after '@'.",
                     date |-> "Could not parse the date.",
                     time |-> "Could not parse the time.",
                     time_range |-> "Could not parse time range."]
    IN  /\ buildCalls <= 1
        /\ (Parsed /\ HasKey(data, "needs_more"))
           => /\ buildCalls = 0 /\ docs = <<>> /\ ics = None
              /\ pc = "done" => replies = << Reply("prompt", expected[data.needs_more], NoEcho) >>
        /\ (Parsed /\ ~HasKey(data, "needs_more"))
           => /\ pc = "parsed" => buildCalls = 0
              /\ pc # "parsed" => buildCalls = 1
C8_Witness ==
    /\ pc = "done" /\ HasKey(data, "needs_more") /\ data.needs_more = "time_range"
    /\ Len(replies) = 1 /\ buildCalls = 0 /\ docs = <<>>

\* C9: a year-less token DD-MM or DD/MM whose day exists in the clock date's year
\* gives that date in that year when it is on or after the clock date (the clock
\* date itself included, and 29-02 in a leap year before 1 March), and the same
\* day and month of the next year, never a later one, when it is before the
\* clock date; a token with a year gives its own date, not rolled forward.
C9_YearlessRollForward ==
    (pc = "date_done")
    => /\ (inp.kind = "dm" /\ ValidDate(today.year, inp.m, inp.d))
          => IF ~DateLess(MkDate(today.year, inp.m, inp.d), today)
             THEN dres = Some(MkDate(today.year, inp.m, inp.d))
             ELSE ValidDate(today.year + 1, inp.m, inp.d) => dres = Some(MkDate(today.year + 1, inp.m, inp.d))
       /\ (inp.kind # "dm" /\ ValidDate(inp.y, inp.m, inp.d)) => dres = Some(MkDate(inp.y, inp.m, inp.d))

\* C10: when parse_datetime resolves a weekday name (the text has no 'today'
\* and no 'tomorrow') the date is after the clock date: without 'next' by 1..7
\* days, 7 when the name is the clock date's own weekday; with 'next' in the
\* text 7 more days are added only to an offset below 7, so the date is 7..13
\* days ahead and exactly 7 when the name is the clock date's own weekday.
C10_WeekdayOffset ==
    (pc = "nl_done" /\ inp.also = NoText /\ \E j \in 1..7 : inp.cue = WeekdayNames[j])
    => LET j == CHOOSE k \in 1..7 : inp.cue = WeekdayNames[k]
           off == ToOrdinal(Val(nlres).date) - ToOrdinal(today)
       IN  /\ ValidDate(Val(nlres).date.year, Val(nlres).date.month, Val(nlres).date.day)
           /\ off > 0
           /\ (off - (j - 1 - Weekday(today))) % 7 = 0
           /\ ~inp.next => off \in 1..7
           /\ inp.next => off \in 7..13
           /\ (j - 1 = Weekday(today)) => off = 7
C10_Witness ==
    /\ pc = "nl_done" /\ inp.cue = WeekdayNames[1] /\ ~inp.next
    /\ today = MkDate(2024, 12, 30)
    /\ Val(nlres).date = MkDate(2025, 1, 6)

\* the date of day d in the month of date a, and in the month after it
ThisMonthDay(a, d) == MkDate(a.year, a.month, d)
NextMonthDay(a, d) == MkDate(NextMonthYear(a), NextMonth(a), d)
Exists(a) == ValidDate(a.year, a.month, a.day)
NlDate == Val(nlres).date
NlTime == Val(nlres).time

\* C11: when the day-of-month rule is reached (no 'today', 'tomorrow' or weekday
\* name in the text) with a day number d in 1..31, the date is day d of the clock
\* date's month when that day exists and is not before the clock date, else day d
\* of the following month (January of the next year after December) when that
\* day exists, else the clock date itself - also when day d has passed this
\* month and does not exist in the following one.
C11_DayOfMonth ==
    (pc = "nl_done" /\ inp.cue = NoText /\ inp.also = NoText /\ inp.day \in 1..31)
    => NlDate = (IF Exists(ThisMonthDay(today, inp.day)) /\ ~DateLess(ThisMonthDay(today, inp.day), today)
                 THEN ThisMonthDay(today, inp.day)
                 ELSE IF Exists(NextMonthDay(today, inp.day)) THEN NextMonthDay(today, inp.day)
                 ELSE today)
\* day 30 on 31 January: passed this month, missing in February
C11_Witness ==
    /\ pc = "nl_done" /\ inp.cue = NoText /\ inp.also = NoText /\ inp.day = 30
    /\ today = MkDate(2025, 1, 31)
    /\ NlDate = MkDate(2025, 1, 31)

\* the text was written with the word w as a date cue
Written(w) == inp.cue = w \/ inp.also = w
WrittenWeekdays == { j \in 1..7 : Written(WeekdayNames[j]) }

\* C12: the date cues are applied in the order today, tomorrow, weekday name,
\* day-of-month number, default.  A text with 'today' gives the clock date
\* whatever else it holds; a text with 'tomorrow' and no 'today' gives the clock
\* date + 1 day, also with a weekday name or a number in it; a text with a
\* weekday name and a number gives the weekday rule's date; a text with no cue
\* (no keyword, no weekday name, no digits) gives the clock date.
C12_CuePrecedence ==
    (pc = "nl_done")
    => /\ Written(WordToday) => NlDate = today
       /\ (Written(WordTomorrow) /\ ~Written(WordToday)) => NlDate = AddDays(today, 1)
       /\ (WrittenWeekdays # {} /\ ~Written(WordTomorrow) /\ ~Written(WordToday))
          => LET j == CHOOSE k \in WrittenWeekdays : \A m \in WrittenWeekdays : k <= m
             IN  /\ Weekday(NlDate) = j - 1
                 /\ (ToOrdinal(NlDate) - ToOrdinal(today)) \in (IF inp.next THEN 7..13 ELSE 1..7)
       /\ (inp.cue = NoText /\ inp.also = NoText /\ inp.day < 0 /\ inp.time = NoText) => NlDate = today
\* 'Dinner tomorrow friday on the 19 at 9 pm'
C12_Witness ==
    /\ pc = "nl_done" /\ inp.cue = WordTomorrow /\ inp.also = WeekdayNames[5] /\ inp.day = 19
    /\ inp.time = <<"9", " ", "p", "m">>
    /\ NlDate = AddDays(today, 1)

\* C13: a time parse_datetime returns is a valid 24-hour HH:MM, the one
\* parse_time_12_24 reads from the time expression by its 12-hour form; an
\* expression with an hour outside 1..12 or a minute outside 0..59 ('13 pm',
\* '9:75 pm') and a text without a time expression give no time.
C13_TimeSubset ==
    (pc = "nl_done")
    => /\ ~IsNone(NlTime) => ValidHM(Val(NlTime))
       /\ IF IsNone(parse_time_12_24(inp.time))
          THEN NlTime = None
          ELSE NlTime = Some(FormatHM(Val(parse_time_12_24(inp.time))))

\* the words of a text, in lower case
WordsOf(s) == { Lower(Split(s)[k]) : k \in 1..Len(Split(s)) }
StopWords == { Keywords[k] : k \in 1..Len(Keywords) }

\* C17: extract_title returns a non-empty title, 'Event' when nothing remains;
\* the title has no time expression, no stop-word (today, tomorrow, on, at, the,
\* next, a weekday name), no ordinal suffix and no day number, written bare
\* ('19') or with its suffix ('19th'): of a message made of a title followed by
\* date cues, a day number and a time, the title alone is returned ('Dinner
\* tomorrow at 9 pm' gives 'Dinner', 'Call dentist on the 19th at 6:30 PM' gives
\* 'Call dentist').
C17_TitleClean ==
    (pc = "title_done")
    => /\ Val(title) # <<>>
       /\ Val(title) = (IF inp.title = <<>> THEN Placeholder ELSE inp.title)
       /\ \A p \in 1..Len(Val(title)) : ~IsDigit(Val(title)[p])
       /\ WordsOf(Val(title)) \cap (StopWords \cup { <<"a", "m">>, <<"p", "m">> }) = {}

\* the event of the calendar that was fetched, as it is now
EditedEvent == remote[Val(fetched).at]
FetchedEvent == Val(fetched).record

\* C14: the update of /editevent overwrites on the fetched event only what the
\* message resolved: with no date cue in the message the event keeps its date,
\* with no time in the message it keeps its time, and when extract_title gives
\* only the placeholder 'Event' it keeps its summary; no other event changes.
C14_EditOverwritesResolvedOnly ==
    (pc \in {"edit_updated", "edit_done"} /\ ~IsNone(fetched) /\ ~IsNone(title))
    => /\ \A i \in 1..Len(remote) : i # Val(fetched).at => remote[i] \in { EvReminder, EvStandup, EvGraduation }
       /\ Lower(extract_title(text)) = Lower(Placeholder) => EditedEvent.summary = FetchedEvent.summary
       /\ (pc = "edit_updated" \/ replies[Len(replies)].kind = "updated")
          => /\ (inp.cue = NoText /\ inp.subject # WeekdayNames[5]) => EditedEvent.date = FetchedEvent.date
             /\ inp.time = NoText => EditedEvent.time = FetchedEvent.time

\* the calendar without what build_ics takes from the clock
SansClock(cal) == [cal[1] EXCEPT !.events = << [@[1] EXCEPT !.uid = <<>>, !.dtstamp = 0] >>]
\* the handlers whose build_ics call returned a calendar
Built == { i \in Handlers : ~IsNone(hs[i].ics) /\ Val(hs[i].ics).ok }
UidOf(i) == Val(hs[i].ics).cal[1].events[1].uid

\* C15: any two calls of build_ics, for the same or for different records, also
\* in the same clock second by commands handled side by side, give different
\* UIDs; but for the UID and the timestamp the output is a function of the
\* record.
C15_UidUnique ==
    (pc = "conc")
    => /\ \A i \in Built : \A j \in Built : i # j => UidOf(i) # UidOf(j)
       /\ \A i \in Built : SansClock(Val(hs[i].ics).cal) = SansClock(build_ics(hs[i].data, 0).cal)

\* C16: build_ics emits one calendar object with one event; the event has one
\* DISPLAY alarm, with trigger minus the reminder's minutes, when the record's
\* reminder is greater than 0, and no alarm when it is 0 (r0, or no reminder
\* token).
C16_AlarmIffReminder ==
    (pc \in {"built", "echoed"})
    => /\ Len(Val(ics).cal) = 1
       /\ Len(Val(ics).cal[1].events) = 1
       /\ IF data.reminder > 0
          THEN /\ Len(TheEvent.alarms) = 1
               /\ TheEvent.alarms[1].action = "DISPLAY"
               /\ TheEvent.alarms[1].trigger = 0 - data.reminder
          ELSE TheEvent.alarms = <<>>
       /\ inp.rem \in {-1, 0} => TheEvent.alarms = <<>>
       /\ inp.rem \in 1..MAX_REMINDER_MIN
          => (Len(TheEvent.alarms) = 1 /\ TheEvent.alarms[1].trigger = 0 - inp.rem)
C16_Witness ==
    /\ pc = "built" /\ inp.rem = 15 /\ data.reminder = 15
    /\ Len(TheEvent.alarms) = 1 /\ TheEvent.alarms[1].trigger = 0 - 15

\* what the handler of a command sends when the command is handled alone
SoloReplies(command_text) ==
    LET d == smart_parse(command_text, today)
    IN  IF HasKey(d, "needs_more") THEN << Reply("prompt", PromptFor(d.needs_more), NoEcho) >>
        ELSE IF build_ics(d, 0).ok THEN << Reply("ready", "Event ready", EchoOf(d)) >>
        ELSE << Reply("sorry", "Sorry, something went wrong creating your event.", NoEcho) >>
SoloDocs(command_text) ==
    LET d == smart_parse(command_text, today)
    IN  IF HasKey(d, "needs_more") \/ ~build_ics(d, 0).ok THEN <<>>
        ELSE << [filename |-> Underscored(Strip(d.title)) \o DotIcs, payload |-> SansClock(build_ics(d, 0).cal)] >>

\* C18: under every interleaving of the handlers each command gets the parse
\* outcome, the replies and the calendar file (but for UID and timestamp) it
\* gets when handled alone; an error raised for one command ends in that
\* command's error reply and changes nothing for the others.
C18_HandlersIndependent ==
    (pc = "conc")
    => \A i \in Handlers :
          /\ hs[i].text = inp[i]
          /\ hs[i].pc # "recv" => hs[i].data = smart_parse(inp[i], today)
          /\ hs[i].pc = "done"
             => /\ hs[i].replies = SoloReplies(inp[i])
                /\ [k \in 1..Len(hs[i].docs) |-> [hs[i].docs[k] EXCEPT !.payload = SansClock(@)]] = SoloDocs(inp[i])
\* one command failed in build_ics, the other got its file
C18_Witness ==
    /\ pc = "conc"
    /\ \E i \in Handlers : \E j \in Handlers :
          /\ hs[i].pc = "done" /\ hs[i].replies[1].kind = "sorry" /\ hs[i].docs = <<>>
          /\ hs[j].pc = "done" /\ Len(hs[j].docs) = 1

\* C19: the date parse_datetime resolves does not depend on the time expression:
\* a text with a clock time and no date cue (no 'today', 'tomorrow', weekday name
\* or number but the time's digits, as 'Dinner at 9 pm', 'Call at 6:30 PM') gives
\* the clock date, whatever the digits of the time.
C19_DateIgnoresTime ==
    (pc = "nl_done" /\ inp.cue = NoText /\ inp.also = NoText /\ inp.day < 0 /\ inp.time # NoText)
    => NlDate = today

\* C20: parse_datetime returns a date of the calendar that is not before the
\* clock date; it is at most 13 days ahead when the text has 'today', 'tomorrow'
\* or a weekday name, and otherwise no later than the last day of the month
\* after the clock date's.
C20_DateInRange ==
    (pc = "nl_done")
    => /\ ~IsNone(nlres)
       /\ Exists(NlDate)
       /\ ~DateLess(NlDate, today)
       /\ IF Written(WordToday) \/ Written(WordTomorrow) \/ WrittenWeekdays # {}
          THEN ToOrdinal(NlDate) - ToOrdinal(today) \in 0..13
          ELSE \/ NlDate.year = today.year /\ NlDate.month = today.month
               \/ NlDate.year = NextMonthYear(today) /\ NlDate.month = NextMonth(today)
\* day 5 on 31 December: 5 January of the next year
C20_Witness ==
    /\ pc = "nl_done" /\ inp.cue = NoText /\ inp.also = NoText /\ inp.day = 5
    /\ today = MkDate(2024, 12, 31)
    /\ NlDate = MkDate(2025, 1, 5)

====
